---- MODULE Spec2Model ----
(***************************************************************************)
(* Model of the Business Card Reader API (src/app.py): the seven request   *)
(* handlers over the three tables users, categories and cards, the         *)
(* request-scoped database connection, and the call-out to the extraction  *)
(* model.  One action per handler; each action is the whole handler.       *)
(***************************************************************************)
EXTENDS Integers, Sequences, FiniteSets, TLC

(***************************************************************************)
(* Bounds of the model.                                                    *)
(***************************************************************************)
\* registrations that may succeed (fresh user ids handed out by uuid4)
MaxUsers == 2
\* cards that may be inserted
MaxCards == 2
\* readings of datetime.now() (every reading is later than the one before)
MaxClock == 3

(***************************************************************************)
(* Values.  Python None / SQL NULL and an absent JSON key are two values   *)
(* distinct from every string the model draws; in particular NULL is not   *)
(* the string "None".                                                      *)
(***************************************************************************)
NULL == "<null>"
MISSING == "<missing>"

\* `not x` for the values a JSON string field can take: absent, null, ""
Falsy(v) == v \in {MISSING, NULL, ""}

\* a password field that is absent (the empty string takes the same
\* `not password` branch)
NoPassword == <<>>

Range(seq) == {seq[i] : i \in 1..Len(seq)}

(***************************************************************************)
(* Passwords are sequences of Unicode code points; str.encode() is UTF-8   *)
(* and base64.b64encode works on the bytes.  A base64 text is the sequence *)
(* of its alphabet indices 0..63, with PadChar standing for '='.           *)
(***************************************************************************)
PadChar == 64

\* "a", "e-acute", "a e-acute b": 1, 2 and 4 bytes of UTF-8, so that base64
\* pads with two, one and (after a whole group of three bytes) two '='
Passwords == { <<97>>, <<233>>, <<97, 233, 98>> }

\* str.encode(): one code point to its UTF-8 bytes (1 or 2 bytes here)
Utf8OfCodePoint(cp) ==
    IF cp < 128 THEN <<cp>>
    ELSE <<192 + (cp \div 64), 128 + (cp % 64)>>

RECURSIVE Utf8Encode(_)
Utf8Encode(str) ==
    IF str = <<>> THEN <<>>
    ELSE Utf8OfCodePoint(Head(str)) \o Utf8Encode(Tail(str))

\* bytes.decode(): <<TRUE, code points>> or <<FALSE, <<>>>> (UnicodeDecodeError)
RECURSIVE Utf8Decode(_)
Utf8Decode(bytes) ==
    IF bytes = <<>> THEN <<TRUE, <<>>>>
    ELSE LET b == Head(bytes)
         IN  IF b < 128
             THEN LET rest == Utf8Decode(Tail(bytes))
                  IN  IF rest[1] THEN <<TRUE, <<b>> \o rest[2]>> ELSE <<FALSE, <<>>>>
             ELSE IF b >= 194 /\ b < 224 /\ Len(bytes) >= 2
                     /\ bytes[2] >= 128 /\ bytes[2] < 192
             THEN LET rest == Utf8Decode(Tail(Tail(bytes)))
                  IN  IF rest[1]
                      THEN <<TRUE, <<(b - 192) * 64 + (bytes[2] - 128)>> \o rest[2]>>
                      ELSE <<FALSE, <<>>>>
             ELSE <<FALSE, <<>>>>

\* base64.b64encode(): three bytes to four sextets, '=' padding at the end
RECURSIVE B64Encode(_)
B64Encode(bytes) ==
    IF bytes = <<>> THEN <<>>
    ELSE IF Len(bytes) = 1
    THEN LET n == bytes[1] * 65536
         IN  <<n \div 262144, (n \div 4096) % 64, PadChar, PadChar>>
    ELSE IF Len(bytes) = 2
    THEN LET n == bytes[1] * 65536 + bytes[2] * 256
         IN  <<n \div 262144, (n \div 4096) % 64, (n \div 64) % 64, PadChar>>
    ELSE LET n == bytes[1] * 65536 + bytes[2] * 256 + bytes[3]
         IN  <<n \div 262144, (n \div 4096) % 64, (n \div 64) % 64, n % 64>>
             \o B64Encode(SubSeq(bytes, 4, Len(bytes)))

\* base64.b64decode(): <<TRUE, bytes>> or <<FALSE, <<>>>> (binascii.Error)
RECURSIVE B64Decode(_)
B64DecodeNoPadding(text) ==
    \* a decoder that treats '=' as one more data symbol worth 0
    IF text = <<>> THEN <<TRUE, <<>>>>
    ELSE IF Len(text) < 4 THEN <<FALSE, <<>>>>
    ELSE LET v(i) == IF text[i] = PadChar THEN 0 ELSE text[i]
             n == v(1) * 262144 + v(2) * 4096 + v(3) * 64 + v(4)
             rest == B64Decode(SubSeq(text, 5, Len(text)))
         IN  IF rest[1]
             THEN <<TRUE, <<n \div 65536, (n \div 256) % 256, n % 256>> \o rest[2]>>
             ELSE <<FALSE, <<>>>>
B64Decode(text) ==
    IF text = <<>> THEN <<TRUE, <<>>>>
    ELSE IF Len(text) < 4 \/ text[1] = PadChar \/ text[2] = PadChar THEN <<FALSE, <<>>>>
    ELSE LET n == text[1] * 262144 + text[2] * 4096
                  + (IF text[3] = PadChar THEN 0 ELSE text[3]) * 64
                  + (IF text[4] = PadChar THEN 0 ELSE text[4])
         IN  IF text[3] = PadChar
             THEN IF text[4] = PadChar /\ Len(text) = 4
                  THEN <<TRUE, <<n \div 65536>>>>
                  ELSE <<FALSE, <<>>>>
             ELSE IF text[4] = PadChar
             THEN IF Len(text) = 4
                  THEN <<TRUE, <<n \div 65536, (n \div 256) % 256>>>>
                  ELSE <<FALSE, <<>>>>
             ELSE LET rest == B64Decode(SubSeq(text, 5, Len(text)))
                  IN  IF rest[1]
                      THEN <<TRUE, <<n \div 65536, (n \div 256) % 256, n % 256>> \o rest[2]>>
                      ELSE <<FALSE, <<>>>>

\* register_user: base64.b64encode(password.encode()).decode()
EncodePassword(password) == B64Encode(Utf8Encode(password))

\* login_user: base64.b64decode(stored_password).decode()
DecodePassword(stored) ==
    LET raw == B64Decode(stored)
    IN  IF raw[1] THEN Utf8Decode(raw[2]) ELSE <<FALSE, <<>>>>

(***************************************************************************)
(* File names are sequences of characters.                                 *)
(***************************************************************************)
ALLOWED_EXTENSIONS ==
    { <<"p","n","g">>, <<"j","p","g">>, <<"j","p","e","g">>,
      <<"g","i","f">>, <<"b","m","p">>, <<"w","e","b","p">> }

\* str.lower() on the characters the model's file names use
LowerChar(c) ==
    CASE c = "P" -> "p" [] c = "N" -> "n" [] c = "G" -> "g" [] OTHER -> c

Lower(s) == [i \in 1..Len(s) |-> LowerChar(s[i])]

HasDot(s) == \E i \in 1..Len(s) : s[i] = "."

\* filename.rsplit('.', 1)[1]: what follows the last dot
AfterLastDot(s) ==
    LET last == CHOOSE i \in 1..Len(s) :
                    s[i] = "." /\ \A j \in (i+1)..Len(s) : s[j] # "."
    IN  SubSeq(s, last + 1, Len(s))

\* filename.split('.')[1]: what stands between the first dot and the next
SecondSegment(s) ==
    LET first == CHOOSE i \in 1..Len(s) :
                    s[i] = "." /\ \A j \in 1..(i-1) : s[j] # "."
        stop == IF \E j \in (first+1)..Len(s) : s[j] = "."
                THEN CHOOSE j \in (first+1)..Len(s) :
                        s[j] = "." /\ \A k \in (first+1)..(j-1) : s[k] # "."
                ELSE Len(s) + 1
    IN  SubSeq(s, first + 1, stop - 1)

allowed_file_second_segment(filename) ==
    HasDot(filename) /\ Lower(SecondSegment(filename)) \in ALLOWED_EXTENSIONS

allowed_file(filename) ==
    HasDot(filename) /\ Lower(AfterLastDot(filename)) \in ALLOWED_EXTENSIONS

(***************************************************************************)
(* Request inputs.                                                         *)
(*                                                                         *)
(* An id as a request carries it: absent (or falsy), a string that is no   *)
(* UUID, a truthy JSON value that is no string (a number, a list, ...), or *)
(* a well-formed UUID.  Stored UUIDs are numbered; uuid4() returns the     *)
(* next number, so no two stored ids are equal.                            *)
(***************************************************************************)
SeedUserId == 1
FirstFreshId == SeedUserId + 1

IdMissing == [kind |-> "missing", val |-> 0]
IdMalformed == [kind |-> "malformed", val |-> 0]
IdNonString == [kind |-> "nonstring", val |-> 0]
WellFormed(n) == [kind |-> "uuid", val |-> n]

\* uuid.UUID(x): "ok", "ValueError" (a string that is no UUID) or
\* "AttributeError" (x is no string: UUID() calls x.replace)
uuid_UUID(id) ==
    CASE id.kind = "uuid" -> "ok"
      [] id.kind = "malformed" -> "ValueError"
      [] OTHER -> "AttributeError"

Phones == {"555", "777", "888"}
UnregisteredPhone == "000"
UserNames == {"Alice"}
Emails == {"a@x.io"}

\* outcomes of the database gateway for one request:
\*   connect  psycopg2.connect raises, get_db_connection returns None
\*   cursor   conn.cursor() raises
\*   select   the handler's first statement raises
\*   write    the handler's INSERT/UPDATE (or its commit) raises
DbFaults == {"none", "connect", "cursor", "select", "write"}
ReadFaults == DbFaults \ {"write"}

(***************************************************************************)
(* Tables.                                                                 *)
(***************************************************************************)
VARIABLES
    users,        \* set of rows of table users
    categories,   \* rows of table categories, in insertion order
    cards,        \* set of rows of table cards
    nextId,       \* the next value uuid4() returns
    now,          \* the last value datetime.now() returned
    last,         \* the last request served and its response
    issued,       \* what the 201 answers of /register were given for
    inflight      \* per worker, the /register request it is in the middle of

vars == <<users, categories, cards, nextId, now, last, issued, inflight>>

\* the account that is in the database when the service starts, one that an
\* operator has deactivated (login_user reads users.status; no handler
\* writes any value but 'active')
SeedUser ==
    [user_id |-> SeedUserId, name |-> "Bob", email |-> NULL, phone |-> "777",
     password |-> EncodePassword(<<97>>), account_type |-> "free",
     status |-> "suspended", created_at |-> 0]

DefaultCategories ==
    << <<"B","u","s","i","n","e","s","s">>, <<"P","e","r","s","o","n","a","l">>,
       <<"F","a","v","o","r","i","t","e","s">>, <<"I","m","p","o","r","t","a","n","t">> >>

Registered == {u \in users : u.user_id # SeedUserId}

\* the requests the server works on at the same time (threads of the WSGI
\* server, each with a connection of its own)
MaxWorkers == 2
Workers == 1..MaxWorkers
Idle == [pc |-> "idle"]

\* the response of a request
Reply(op, req, status, error, body, modelCalls, conn) ==
    [op |-> op, req |-> req, status |-> status, error |-> error, body |-> body,
     model_calls |-> modelCalls, conn |-> conn]

NoBody == <<>>

Init ==
    /\ users = {SeedUser}
    /\ categories = <<>>
    /\ cards = {}
    /\ nextId = FirstFreshId
    /\ now = 0
    /\ last = Reply("none", <<>>, 0, "", NoBody, 0, "none")
    /\ issued = {}
    /\ inflight = [w \in Workers |-> Idle]

(***************************************************************************)
(* What the `try: cursor = conn.cursor() ... except: conn.rollback() ...   *)
(* finally: cursor.close(); conn.close()` frame of a handler leaves behind *)
(* when the gateway fails: the status, the message and the state of the    *)
(* connection.  When conn.cursor() raises, `cursor` is unbound in the      *)
(* finally block: cursor.close() raises UnboundLocalError, conn.close() is *)
(* skipped and the enclosing `except Exception` answers.                   *)
(***************************************************************************)
ScopedFault(fault, outerError) ==
    CASE fault = "connect" -> [status |-> 500, error |-> "Database connection failed", conn |-> "none"]
      [] fault = "cursor"  -> [status |-> 500, error |-> outerError, conn |-> "open"]
      [] OTHER             -> [status |-> 500, error |-> "Database error", conn |-> "closed"]

(***************************************************************************)
(* POST /register                                                          *)
(***************************************************************************)
NewUserRow(id, user_name, phone, password, email, t) ==
    [user_id |-> id, name |-> user_name,
     email |-> IF Falsy(email) THEN NULL ELSE email,
     phone |-> phone, password |-> EncodePassword(password),
     account_type |-> "free", status |-> "active", created_at |-> t]

DefaultCategoryRowsButLast(id) ==
    [i \in 1..(Len(DefaultCategories) - 1) |->
        [user_id |-> id, category_name |-> DefaultCategories[i], status |-> 0]]

DefaultCategoryRows(id) ==
    [i \in 1..Len(DefaultCategories) |->
        [user_id |-> id, category_name |-> DefaultCategories[i], status |-> 0]]

\* the statement of the transaction of register_user that raises: the INSERT
\* INTO users ("write"), the k-th INSERT INTO categories, or conn.commit()
RegisterFaultPoints ==
    <<"write", "category1", "category2", "category3", "category4", "commit">>

FaultPoint(fault) == CHOOSE k \in 1..Len(RegisterFaultPoints) : RegisterFaultPoints[k] = fault

\* what the connection has written and not committed when its statement
\* number `point` raises: the statements before it have run
Uncommitted(point, id, user_name, phone, password, email, t) ==
    [users |-> IF point > 1
               THEN users \cup {NewUserRow(id, user_name, phone, password, email, t)}
               ELSE users,
     categories |-> IF point > 1
                    THEN categories \o SubSeq(DefaultCategoryRows(id), 1, point - 2)
                    ELSE categories]

conn_rollback_keeps_writes(committed, uncommitted) == uncommitted

\* conn.rollback(): the tables are what they were at the last commit
conn_rollback(committed, uncommitted) == committed

register_user(user_name, phone, password, email, fault) ==
    LET req == [user_name |-> user_name, phone |-> phone, password |-> password,
                email |-> email, fault |-> fault]
        answer(status, error, body, conn) ==
            /\ last' = Reply("register", req, status, error, body, 0, conn)
            /\ UNCHANGED <<users, categories, cards, nextId, now, issued, inflight>>
    IN  IF user_name = MISSING /\ phone = MISSING /\ password = NoPassword /\ email = MISSING
        THEN answer(400, "No data provided", NoBody, "none")
        ELSE IF Falsy(user_name) \/ Falsy(phone) \/ password = NoPassword
        THEN answer(400, "user_name, phone, and password are required", NoBody, "none")
        ELSE IF fault \in {"connect", "cursor", "select"}
        THEN LET f == ScopedFault(fault, "Server error")
             IN  answer(f.status, f.error, NoBody, f.conn)
        ELSE IF \E u \in users : u.phone = phone
        THEN answer(409, "Phone number already registered", NoBody, "closed")
        ELSE IF fault # "none"
        THEN LET after == conn_rollback(
                     [users |-> users, categories |-> categories],
                     Uncommitted(FaultPoint(fault), nextId, user_name, phone,
                                 password, email, now + 1))
             IN  /\ users' = after.users
                 /\ categories' = after.categories
                 /\ last' = Reply("register", req, 500, "Database error", NoBody, 0, "closed")
                 /\ UNCHANGED <<cards, nextId, now, issued, inflight>>
        ELSE /\ Cardinality(Registered) < MaxUsers
             /\ now < MaxClock
             /\ users' = users \cup
                    {NewUserRow(nextId, user_name, phone, password, email, now + 1)}
             /\ categories' = categories \o DefaultCategoryRows(nextId)
             /\ nextId' = nextId + 1
             /\ now' = now + 1
             /\ last' = Reply("register", req, 201, "",
                              [user_id |-> nextId, name |-> user_name], 0, "closed")
             /\ issued' = issued \cup
                    {[user_id |-> nextId, phone |-> phone, password |-> password]}
             /\ UNCHANGED <<cards, inflight>>

\* every body with a working database, and every gateway fault on a
\* complete body
RegisterInputs ==
    [user_name : UserNames \cup {MISSING}, phone : Phones \cup {MISSING},
     password : Passwords \cup {NoPassword}, email : Emails \cup {MISSING},
     fault : {"none"}]
    \cup [user_name : UserNames, phone : Phones, password : {<<97>>},
          email : {MISSING}, fault : DbFaults \cup Range(RegisterFaultPoints)]

Register ==
    \E i \in RegisterInputs :
        register_user(i.user_name, i.phone, i.password, i.email, i.fault)

(***************************************************************************)
(* POST /register served by several workers at once.  Each worker has its  *)
(* own connection and takes no lock; under the engine's default isolation  *)
(* (read committed) a SELECT sees the rows committed so far, so the        *)
(* request has two steps the others can come between: the SELECT of the    *)
(* phone, and the inserts with their commit.  The INSERT INTO users is     *)
(* taken as the handler issues it: nothing in the source declares a        *)
(* constraint on users.phone.                                              *)
(***************************************************************************)
\* the SELECT phone FROM users WHERE phone = %s of worker w
register_check(w, user_name, phone, password, email) ==
    LET req == [user_name |-> user_name, phone |-> phone, password |-> password,
                email |-> email, fault |-> "none"]
    IN  /\ inflight[w] = Idle
        /\ IF \E u \in users : u.phone = phone
           THEN /\ last' = Reply("register", req, 409,
                                 "Phone number already registered", NoBody, 0, "closed")
                /\ UNCHANGED inflight
           ELSE /\ inflight' = [inflight EXCEPT ![w] = [pc |-> "checked", req |-> req]]
                /\ UNCHANGED last
        /\ UNCHANGED <<users, categories, cards, nextId, now, issued>>

\* the five INSERTs and the commit of worker w
register_insert(w) ==
    /\ inflight[w] # Idle
    /\ Cardinality(Registered) < MaxUsers
    /\ now < MaxClock
    /\ LET req == inflight[w].req
       IN  /\ users' = users \cup
                  {NewUserRow(nextId, req.user_name, req.phone, req.password,
                              req.email, now + 1)}
           /\ categories' = categories \o DefaultCategoryRows(nextId)
           /\ last' = Reply("register", req, 201, "",
                            [user_id |-> nextId, name |-> req.user_name], 0, "closed")
           /\ issued' = issued \cup
                  {[user_id |-> nextId, phone |-> req.phone, password |-> req.password]}
    /\ nextId' = nextId + 1
    /\ now' = now + 1
    /\ inflight' = [inflight EXCEPT ![w] = Idle]
    /\ UNCHANGED cards

\* complete bodies
ConcurrentRegisterInputs ==
    [user_name : UserNames, phone : Phones, password : {<<97>>, <<233>>},
     email : {MISSING}]

RegisterCheck ==
    \E w \in Workers : \E i \in ConcurrentRegisterInputs :
        register_check(w, i.user_name, i.phone, i.password, i.email)

RegisterInsert ==
    \E w \in Workers : register_insert(w)

(***************************************************************************)
(* POST /login                                                             *)
(***************************************************************************)
\* the answer once cursor.fetchone() has returned: fetched is {} (None, no
\* row for the phone) or {row}
LoginAnswer(fetched, password) ==
    IF fetched = {}
    THEN [status |-> 401, error |-> "Invalid phone number or password", body |-> NoBody]
    ELSE LET row == CHOOSE r \in fetched : TRUE IN
         IF row.status # "active"
    THEN [status |-> 401, error |-> "Account is not active", body |-> NoBody]
    ELSE LET decoded == DecodePassword(row.password)
         IN  IF ~decoded[1]
             THEN [status |-> 500, error |-> "Password verification failed", body |-> NoBody]
             ELSE IF password # decoded[2]
             THEN [status |-> 401, error |-> "Invalid phone number or password", body |-> NoBody]
             ELSE [status |-> 200, error |-> "",
                   body |-> [user_id |-> row.user_id, name |-> row.name]]

\* cursor.fetchone() of SELECT ... FROM users WHERE phone = %s
FetchUserByPhone(phone) ==
    IF \E u \in users : u.phone = phone
    THEN {{u} : u \in {v \in users : v.phone = phone}}
    ELSE {{}}

login_user(phone, password, fault) ==
    LET req == [phone |-> phone, password |-> password, fault |-> fault]
        answer(status, error, body, conn) ==
            /\ last' = Reply("login", req, status, error, body, 0, conn)
            /\ UNCHANGED <<users, categories, cards, nextId, now, issued, inflight>>
    IN  IF phone = MISSING /\ password = NoPassword
        THEN answer(400, "No data provided", NoBody, "none")
        ELSE IF Falsy(phone) \/ password = NoPassword
        THEN answer(400, "phone and password are required", NoBody, "none")
        ELSE IF fault # "none"
        THEN LET f == ScopedFault(fault, "Server error")
             IN  answer(f.status, f.error, NoBody, f.conn)
        ELSE \E fetched \in FetchUserByPhone(phone) :
                LET a == LoginAnswer(fetched, password)
                IN  answer(a.status, a.error, a.body, "closed")

LoginInputs ==
    [phone : Phones \cup {UnregisteredPhone, MISSING},
     password : Passwords \cup {NoPassword}, fault : {"none"}]
    \cup [phone : Phones \cup {UnregisteredPhone}, password : {<<97>>},
          fault : ReadFaults]

Login ==
    \E i \in LoginInputs : login_user(i.phone, i.password, i.fault)

(***************************************************************************)
(* The extraction client and the field normaliser.                         *)
(***************************************************************************)
FlatFields ==
    <<"name", "job_title", "company", "phone", "email", "website", "address",
      "additional_info">>
Handles == <<"linkedin", "twitter", "facebook", "instagram">>
TextColumns == FlatFields \o Handles

CardColumns ==
    {"card_id", "user_id", "tags", "card_type", "status", "created_at", "updated_at"}
    \cup Range(TextColumns)

\* values the model's JSON carries for a field: the prompt's sentinel, the
\* empty string, an absent key, null, and two ordinary texts
FieldValues == <<"None", "", MISSING, NULL, "none", "Acme">>

\* the parsed JSON object of a model response: the k-th result gives the
\* i-th field the (i+k)-th value, so that the results together give every
\* field every value; social_is_dict tells whether "social_media" is an
\* object
Rotated(k) ==
    [flat |-> [f \in Range(FlatFields) |->
                  LET i == CHOOSE j \in 1..Len(FlatFields) : FlatFields[j] = f
                  IN  FieldValues[((i + k) % Len(FieldValues)) + 1]],
     social_is_dict |-> TRUE,
     social |-> [h \in Range(Handles) |->
                  LET i == CHOOSE j \in 1..Len(Handles) : Handles[j] = h
                  IN  FieldValues[((i + k + Len(FlatFields)) % Len(FieldValues)) + 1]]]

ExtractionResults ==
    {Rotated(k) : k \in 1..Len(FieldValues)}
    \cup {[Rotated(1) EXCEPT !.social_is_dict = FALSE]}

\* dict.get(key, None)
DictGet(v) == IF v = MISSING THEN NULL ELSE v

\* extract_business_card.clean_none_values
clean_none_values_sentinel_only(value) ==
    IF value = "None" THEN NULL ELSE value

clean_none_values(value) ==
    IF value = "None" \/ value = "" THEN NULL ELSE value

\* the twelve text columns of the row extract_business_card inserts
ExtractedColumn(info, col) ==
    IF col \in Range(FlatFields)
    THEN clean_none_values(DictGet(info.flat[col]))
    ELSE clean_none_values(IF info.social_is_dict THEN DictGet(info.social[col]) ELSE NULL)

\* a timestamp column that is NULL holds 0; datetime.now() is at least 1
NewCardRow(card_id, user_id, info, t) ==
    [col \in CardColumns |->
        CASE col = "card_id" -> card_id
          [] col = "user_id" -> user_id
          [] col = "tags" -> "[]"
          [] col = "card_type" -> "business"
          [] col = "status" -> 0
          [] col = "created_at" -> t
          [] col = "updated_at" -> 0
          [] OTHER -> ExtractedColumn(info, col)]

\* process_image_with_gemini: what the one call to the model comes to
\*   model_error  generate_content raises: {"error": "Error processing ..."}
\*   parse_error  the text is no JSON: {"error": "Failed to parse ...", raw_response}
\*   ok           the parsed JSON object
ModelOutcomes == {"ok", "parse_error", "model_error"}
HasErrorKeyOnRaise(outcome) == outcome = "model_error"

\* "error" in extracted_info
HasErrorKey(outcome) == outcome # "ok"

(***************************************************************************)
(* POST /extract-card                                                      *)
(***************************************************************************)
FileNames ==
    { <<>>,
      <<"c">>,
      <<"c", ".", "p", "n", "g">>,
      <<"c", ".", "P", "N", "G">>,
      <<"c", ".", "e", "x", "e">>,
      <<"c", ".", "p", "n", "g", ".", "e", "x", "e">> }

UserIdsAndUnknown == {u.user_id : u \in users} \cup {nextId}

\* the user_id values a SELECT ... FROM users WHERE user_id = %s finds a row for
UserIds == {u.user_id : u \in users}
CardIds == {c.card_id : c \in cards}

extract_business_card(oversize, hasImage, user_id, filename, imageOk, outcome, info, fault) ==
    LET req == [oversize |-> oversize, hasImage |-> hasImage, user_id |-> user_id,
                filename |-> filename, imageOk |-> imageOk, outcome |-> outcome,
                info |-> info, fault |-> fault]
        answer(status, error, modelCalls, conn) ==
            /\ last' = Reply("extract", req, status, error, NoBody, modelCalls, conn)
            /\ UNCHANGED <<users, categories, cards, nextId, now, issued, inflight>>
    IN  \* request.files parses the body: over MAX_CONTENT_LENGTH it raises
        \* RequestEntityTooLarge inside the handler's try block
        IF oversize
        THEN answer(500, "Server error", 0, "none")
        ELSE IF ~hasImage
        THEN answer(400, "No image file provided", 0, "none")
        ELSE IF user_id.kind = "missing"
        THEN answer(400, "user_id is required", 0, "none")
        ELSE IF uuid_UUID(user_id) = "ValueError"
        THEN answer(400, "Invalid user_id format", 0, "none")
        ELSE IF filename = <<>>
        THEN answer(400, "No image file selected", 0, "none")
        ELSE IF ~allowed_file(filename)
        THEN answer(400, "Invalid file type", 0, "none")
        ELSE IF ~imageOk
        THEN answer(500, "Error processing image", 0, "none")
        ELSE IF HasErrorKey(outcome)
        THEN answer(500, "Failed to extract card information", 1, "none")
        ELSE IF fault = "connect"
        THEN answer(500, "Database connection failed", 1, "none")
        ELSE IF fault \in {"cursor", "select"}
        THEN LET f == ScopedFault(fault, "Error processing image")
             IN  answer(f.status, f.error, 1, f.conn)
        ELSE IF user_id.val \notin UserIds
        THEN answer(404, "User not found", 1, "closed")
        ELSE IF fault = "write"
        THEN answer(500, "Database error", 1, "closed")
        ELSE /\ Cardinality(cards) < MaxCards
             /\ now < MaxClock
             /\ cards' = cards \cup {NewCardRow(nextId, user_id.val, info, now + 1)}
             /\ nextId' = nextId + 1
             /\ now' = now + 1
             /\ last' = Reply("extract", req, 201, "",
                              [card_id |-> nextId, user_id |-> user_id.val, data |-> info],
                              1, "closed")
             /\ UNCHANGED <<users, categories, issued, inflight>>

AnyResult == Rotated(1)
GoodName == <<"c", ".", "p", "n", "g">>

\* a well-formed request for every result and every user id
ValidExtractInputs ==
    [oversize : {FALSE}, hasImage : {TRUE},
     user_id : {WellFormed(n) : n \in UserIds \cup {nextId}},
     filename : {GoodName}, imageOk : {TRUE}, outcome : {"ok"},
     info : ExtractionResults, fault : {"none"}]

\* the checks made before the file is read, in every combination; every
\* content and model outcome for a good and for a bad file name; every
\* gateway fault
ExtractInputs ==
    ValidExtractInputs
    \cup [oversize : BOOLEAN, hasImage : {TRUE},
          user_id : {IdMissing, IdMalformed, WellFormed(SeedUserId)},
          filename : FileNames, imageOk : {TRUE}, outcome : {"ok"},
          info : {AnyResult}, fault : {"none"}]
    \cup [oversize : BOOLEAN, hasImage : {FALSE},
          user_id : {IdMissing, IdMalformed, WellFormed(SeedUserId)},
          filename : {<<>>}, imageOk : {TRUE}, outcome : {"ok"},
          info : {AnyResult}, fault : {"none"}]
    \cup [oversize : {FALSE}, hasImage : {TRUE}, user_id : {WellFormed(SeedUserId)},
          filename : {GoodName, <<"c", ".", "e", "x", "e">>},
          imageOk : BOOLEAN, outcome : ModelOutcomes,
          info : {AnyResult}, fault : {"none", "connect"}]
    \cup [oversize : {FALSE}, hasImage : {TRUE}, user_id : {WellFormed(SeedUserId)},
          filename : {GoodName}, imageOk : {TRUE}, outcome : {"ok"},
          info : {AnyResult}, fault : DbFaults]

Extract ==
    \E i \in ExtractInputs :
        extract_business_card(i.oversize, i.hasImage, i.user_id, i.filename,
                              i.imageOk, i.outcome, i.info, i.fault)

(***************************************************************************)
(* GET /cards/<user_id>                                                    *)
(***************************************************************************)
\* WHERE user_id = %s AND (status = 0 OR status IS NULL); no row of the
\* model holds a NULL status (extract_business_card always writes 0)
ListedAll(user_id) == {c \in cards : c.user_id = user_id}

Listed(user_id) == {c \in cards : c.user_id = user_id /\ c.status = 0}

\* ORDER BY created_at DESC
RECURSIVE NewestFirst(_)
NewestFirst(rows) ==
    IF rows = {} THEN <<>>
    ELSE LET newest == CHOOSE c \in rows : \A d \in rows : d.created_at <= c.created_at
         IN  <<newest>> \o NewestFirst(rows \ {newest})

get_user_cards(user_id, fault) ==
    LET req == [user_id |-> user_id, fault |-> fault]
        answer(status, error, body, conn) ==
            /\ last' = Reply("list", req, status, error, body, 0, conn)
            /\ UNCHANGED <<users, categories, cards, nextId, now, issued, inflight>>
    IN  IF uuid_UUID(user_id) = "ValueError"
        THEN answer(400, "Invalid user_id format", NoBody, "none")
        ELSE IF fault # "none"
        THEN LET f == ScopedFault(fault, "Server error")
             IN  answer(f.status, f.error, NoBody, f.conn)
        ELSE IF user_id.val \notin UserIds
        THEN answer(404, "User not found", NoBody, "closed")
        ELSE LET list == NewestFirst(Listed(user_id.val))
             IN  answer(200, "", [user_id |-> user_id.val, cards |-> list,
                                  total_cards |-> Len(list)], "closed")

ListInputs ==
    [user_id : {IdMalformed} \cup {WellFormed(n) : n \in UserIds \cup {nextId}},
     fault : {"none"}]
    \cup [user_id : {WellFormed(SeedUserId)}, fault : ReadFaults]

GetCards ==
    \E i \in ListInputs : get_user_cards(i.user_id, i.fault)

(***************************************************************************)
(* PUT /update_card_details                                                *)
(***************************************************************************)
allowed_fields ==
    {"name", "job_title", "company", "phone", "email", "website", "address",
     "linkedin", "twitter", "facebook", "instagram", "additional_info", "tags"}

\* the "updates" value of a body: absent, a JSON value that is no object,
\* or an object (map; the empty object is <<>>)
NoUpdates == [kind |-> "missing", map |-> <<>>]
NonDictUpdates == [kind |-> "nondict", map |-> <<>>]
Dict(m) == [kind |-> "dict", map |-> m]

AllowedUpdates ==
    { Dict([name |-> "Zed"]),
      Dict([name |-> "None", phone |-> "", linkedin |-> NULL, tags |-> "[vip]"]) }
DisallowedUpdates ==
    { Dict([status |-> 0]),
      Dict([name |-> "Zed", card_type |-> "personal"]) }

\* set(updates.keys()) - allowed_fields, and the test made of it
invalid_fields(updates) == DOMAIN updates.map \ allowed_fields

RejectsFields(updates) == invalid_fields(updates) # {}

\* update_card_details.clean_none_values
update_clean_none_values(value) ==
    IF value = NULL \/ value = "None" \/ value = "" THEN NULL ELSE value

UpdatedRowReactivates(c, updates, t) ==
    [col \in CardColumns |->
        IF col = "updated_at" THEN t
        ELSE IF col = "status" THEN 0
        ELSE IF col \in DOMAIN updates.map THEN update_clean_none_values(updates.map[col])
        ELSE c[col]]

UpdatedRowStampsCreatedAt(c, updates, t) ==
    [col \in CardColumns |->
        IF col \in {"created_at", "updated_at"} THEN t
        ELSE IF col \in DOMAIN updates.map THEN update_clean_none_values(updates.map[col])
        ELSE c[col]]

\* UPDATE cards SET <field> = %s, ..., updated_at = %s
\*   WHERE card_id = %s AND user_id = %s
UpdatedRow(c, updates, t) ==
    [col \in CardColumns |->
        IF col = "updated_at" THEN t
        ELSE IF col \in DOMAIN updates.map THEN update_clean_none_values(updates.map[col])
        ELSE c[col]]

update_card_details(user_id, card_id, updates, fault) ==
    LET req == [user_id |-> user_id, card_id |-> card_id, updates |-> updates,
                fault |-> fault]
        answer(status, error, body, conn) ==
            /\ last' = Reply("update", req, status, error, body, 0, conn)
            /\ UNCHANGED <<users, categories, cards, nextId, now, issued, inflight>>
        owned == {c \in cards : c.card_id = card_id.val /\ c.user_id = user_id.val}
    IN  IF user_id.kind = "missing" /\ card_id.kind = "missing" /\ updates.kind = "missing"
        THEN answer(400, "No data provided", NoBody, "none")
        ELSE IF user_id.kind = "missing"
        THEN answer(400, "user_id is required", NoBody, "none")
        ELSE IF card_id.kind = "missing"
        THEN answer(400, "card_id is required", NoBody, "none")
        ELSE IF updates.kind # "dict" \/ DOMAIN updates.map = {}
        THEN answer(400, "updates object is required and must be a dictionary", NoBody, "none")
        ELSE IF uuid_UUID(user_id) = "ValueError"
        THEN answer(400, "Invalid user_id or card_id format", NoBody, "none")
        ELSE IF uuid_UUID(user_id) = "AttributeError"
        THEN answer(500, "Server error", NoBody, "none")
        ELSE IF uuid_UUID(card_id) = "ValueError"
        THEN answer(400, "Invalid user_id or card_id format", NoBody, "none")
        ELSE IF uuid_UUID(card_id) = "AttributeError"
        THEN answer(500, "Server error", NoBody, "none")
        ELSE IF RejectsFields(updates)
        THEN answer(400, "Invalid fields", NoBody, "none")
        \* conn = get_db_connection(); cursor = conn.cursor() stand before the
        \* try block: None.cursor() and a failing cursor() both reach the
        \* outer `except Exception`, the second with the connection open
        ELSE IF fault = "connect"
        THEN answer(500, "Server error", NoBody, "none")
        ELSE IF fault = "cursor"
        THEN answer(500, "Server error", NoBody, "open")
        ELSE IF fault = "select"
        THEN answer(500, "Database error", NoBody, "closed")
        ELSE IF user_id.val \notin UserIds
        THEN answer(404, "User not found", NoBody, "closed")
        ELSE IF owned = {}
        THEN answer(404, "Card not found or does not belong to user", NoBody, "closed")
        ELSE IF fault = "write"
        THEN answer(500, "Database error", NoBody, "closed")
        ELSE /\ now < MaxClock
             /\ cards' = (cards \ owned) \cup {UpdatedRow(c, updates, now + 1) : c \in owned}
             /\ now' = now + 1
             /\ last' = Reply("update", req, 200, "",
                              [updated_fields |-> DOMAIN updates.map,
                               card |-> {UpdatedRow(c, updates, now + 1) : c \in owned}],
                              0, "closed")
             /\ UNCHANGED <<users, categories, nextId, issued, inflight>>

BadIds == {IdMissing, IdMalformed, IdNonString}

\* every mapping for every pair of ids naming a user and a card (stored or
\* not); a good and a bad mapping for every pair of ids; every other shape
\* of "updates"; every gateway fault
UpdateInputs ==
    [user_id : {WellFormed(n) : n \in UserIds \cup {nextId}},
     card_id : {WellFormed(n) : n \in CardIds \cup {nextId}},
     updates : AllowedUpdates \cup DisallowedUpdates, fault : {"none"}]
    \cup [user_id : BadIds \cup {WellFormed(SeedUserId)},
          card_id : BadIds \cup {WellFormed(nextId)},
          updates : {Dict([name |-> "Zed"]), Dict([name |-> "Zed", card_type |-> "personal"])},
          fault : {"none"}]
    \cup [user_id : {IdMissing, WellFormed(SeedUserId)},
          card_id : {IdMissing, WellFormed(nextId)},
          updates : {NoUpdates, NonDictUpdates, Dict(<<>>)}, fault : {"none"}]
    \cup [user_id : {WellFormed(SeedUserId)},
          card_id : {WellFormed(n) : n \in CardIds \cup {nextId}},
          updates : {Dict([name |-> "Zed"])}, fault : DbFaults]

UpdateCard ==
    \E i \in UpdateInputs : update_card_details(i.user_id, i.card_id, i.updates, i.fault)

(***************************************************************************)
(* POST /delete_card                                                       *)
(***************************************************************************)
\* UPDATE cards SET status = 1, updated_at = %s WHERE card_id = %s
DeletedRowKeepsStatus(c, t) == [c EXCEPT !["updated_at"] = t]

DeletedRow(c, t) == [c EXCEPT !["status"] = 1, !["updated_at"] = t]

\* the table has its status column (extract_business_card writes it), so
\* the ALTER TABLE branch is not taken
delete_card(card_id, fault) ==
    LET req == [card_id |-> card_id, fault |-> fault]
        answer(status, error, conn) ==
            /\ last' = Reply("delete", req, status, error, NoBody, 0, conn)
            /\ UNCHANGED <<users, categories, cards, nextId, now, issued, inflight>>
        found == {c \in cards : c.card_id = card_id.val}
    IN  IF card_id.kind = "missing"
        THEN answer(400, "card_id is required", "none")
        ELSE IF uuid_UUID(card_id) = "ValueError"
        THEN answer(400, "Invalid card_id format", "none")
        ELSE IF uuid_UUID(card_id) = "AttributeError"
        THEN answer(500, "Server error", "none")
        ELSE IF fault \in {"connect", "cursor", "select"}
        THEN LET f == ScopedFault(fault, "Server error")
             IN  answer(f.status, f.error, f.conn)
        ELSE IF found = {}
        THEN answer(404, "Card not found", "closed")
        ELSE IF \E c \in found : c.status = 1
        THEN answer(400, "Card is already inactive", "closed")
        ELSE IF fault = "write"
        THEN answer(500, "Database error", "closed")
        ELSE /\ now < MaxClock
             /\ cards' = (cards \ found) \cup {DeletedRow(c, now + 1) : c \in found}
             /\ now' = now + 1
             /\ last' = Reply("delete", req, 200, "", [card_id |-> card_id.val], 0, "closed")
             /\ UNCHANGED <<users, categories, nextId, issued, inflight>>

DeleteInputs ==
    [card_id : BadIds \cup {WellFormed(n) : n \in CardIds \cup {nextId}}, fault : {"none"}]
    \cup [card_id : {WellFormed(n) : n \in CardIds \cup {nextId}}, fault : DbFaults]

DeleteCard ==
    \E i \in DeleteInputs : delete_card(i.card_id, i.fault)

(***************************************************************************)
(* POST /add_category                                                      *)
(***************************************************************************)
\* str.strip() for the blank the model's names use
RECURSIVE LStrip(_)
LStrip(str) ==
    IF str # <<>> /\ Head(str) = " " THEN LStrip(Tail(str)) ELSE str

RECURSIVE RStrip(_)
RStrip(str) ==
    IF str # <<>> /\ str[Len(str)] = " " THEN RStrip(SubSeq(str, 1, Len(str) - 1)) ELSE str

StripLeftOnly(str) == LStrip(str)

Strip(str) == RStrip(LStrip(str))

\* the "category_name" value of a body: a string (chars; absent and "" are
\* <<>>) or a truthy JSON value that is no string
NameText(chars) == [kind |-> "str", chars |-> chars]
NameNonString == [kind |-> "nonstring", chars |-> <<>>]

CategoryNameInputs ==
    { NameText(<<>>), NameNonString, NameText(<<" ">>),
      NameText(<<"W", "o", "r", "k">>), NameText(<<" ", "W", "o", "r", "k", " ">>),
      NameText(DefaultCategories[1]) }

\* categories added on demand
MaxAdded == 2

add_category(user_id, category_name, fault) ==
    LET req == [user_id |-> user_id, category_name |-> category_name, fault |-> fault]
        answer(status, error, body, conn) ==
            /\ last' = Reply("add_category", req, status, error, body, 0, conn)
            /\ UNCHANGED <<users, categories, cards, nextId, now, issued, inflight>>
        name == Strip(category_name.chars)
        existing == {i \in 1..Len(categories) :
                        /\ categories[i].user_id = user_id.val
                        /\ categories[i].category_name = name}
    IN  IF user_id.kind = "missing" /\ category_name = NameText(<<>>)
        THEN answer(400, "No data provided", NoBody, "none")
        ELSE IF user_id.kind = "missing" \/ category_name = NameText(<<>>)
        THEN answer(400, "user_id and category_name are required", NoBody, "none")
        ELSE IF uuid_UUID(user_id) = "ValueError"
        THEN answer(400, "Invalid user_id format", NoBody, "none")
        ELSE IF uuid_UUID(user_id) = "AttributeError"
        THEN answer(500, "Server error", NoBody, "none")
        ELSE IF category_name.kind # "str" \/ name = <<>>
        THEN answer(400, "category_name must be a non-empty string", NoBody, "none")
        ELSE IF fault \in {"connect", "cursor", "select"}
        THEN LET f == ScopedFault(fault, "Server error")
             IN  answer(f.status, f.error, NoBody, f.conn)
        ELSE IF user_id.val \notin UserIds
        THEN answer(404, "User not found", NoBody, "closed")
        ELSE IF existing # {}
        THEN \E i \in existing :
                answer(200, "",
                       [user_id |-> user_id.val, category_name |-> name,
                        status |-> categories[i].status, already_exists |-> TRUE],
                       "closed")
        ELSE IF fault = "write"
        THEN answer(500, "Database error", NoBody, "closed")
        ELSE /\ Len(categories) < Len(DefaultCategories) * Cardinality(Registered) + MaxAdded
             /\ categories' = Append(categories,
                    [user_id |-> user_id.val, category_name |-> name, status |-> 0])
             /\ last' = Reply("add_category", req, 201, "",
                              [user_id |-> user_id.val, category_name |-> name,
                               status |-> 0, already_exists |-> FALSE],
                              0, "closed")
             /\ UNCHANGED <<users, cards, nextId, now, issued, inflight>>

AddCategoryInputs ==
    [user_id : BadIds \cup {WellFormed(n) : n \in UserIds \cup {nextId}},
     category_name : CategoryNameInputs, fault : {"none"}]
    \cup [user_id : {WellFormed(n) : n \in UserIds},
          category_name : {NameText(<<"W", "o", "r", "k">>)}, fault : DbFaults]

AddCategory ==
    \E i \in AddCategoryInputs : add_category(i.user_id, i.category_name, i.fault)

\* well-formed uploads that all come to the same result
SimpleExtractInputs ==
    {i \in ValidExtractInputs : i.info = AnyResult}

ExtractValid ==
    \E i \in SimpleExtractInputs :
        extract_business_card(i.oversize, i.hasImage, i.user_id, i.filename,
                              i.imageOk, i.outcome, i.info, i.fault)

\* the one registration the card handlers' runs start from
RegisterAlice ==
    register_user("Alice", "555", <<97>>, MISSING, "none")

Next ==
    \/ Register
    \/ Login
    \/ Extract
    \/ GetCards
    \/ UpdateCard
    \/ DeleteCard
    \/ AddCategory

Spec == Init /\ [][Next]_vars

\* the life of a card: created, listed, updated, soft-deleted
NextCards ==
    \/ RegisterAlice
    \/ ExtractValid
    \/ GetCards
    \/ UpdateCard
    \/ DeleteCard

SpecCards == Init /\ [][NextCards]_vars

\* registration and login
NextAuth ==
    \/ Register
    \/ Login

SpecAuth == Init /\ [][NextAuth]_vars

\* the extraction pipeline, for the account the database starts with
NextExtract ==
    \/ Extract

SpecExtract == Init /\ [][NextExtract]_vars

\* registrations served by several workers at once
NextConcurrent ==
    \/ RegisterCheck
    \/ RegisterInsert

SpecConcurrent == Init /\ [][NextConcurrent]_vars

\* categories
NextCategories ==
    \/ RegisterAlice
    \/ AddCategory

SpecCategories == Init /\ [][NextCategories]_vars

(***************************************************************************)
(* Properties.                                                             *)
(***************************************************************************)
Answer == [status |-> last.status, error |-> last.error, body |-> last.body]

\* the password a stored row was given does not match the one offered
WrongPasswordFor(u, password) == DecodePassword(u.password) # <<TRUE, password>>

\* C1: a login with a registered phone and a wrong password is answered 401,
\* with the very status and body a login with an unregistered phone gets,
\* whatever the status of the account.
C1_WrongPasswordIndistinguishable ==
    \A u \in users :
        ( /\ last.op = "login"
          /\ last.req.fault = "none"
          /\ last.req.password # NoPassword
          /\ last.req.phone = u.phone
          /\ WrongPasswordFor(u, last.req.password) )
        => /\ last.status = 401
           /\ Answer = [status |-> 401, error |-> "Invalid phone number or password",
                        body |-> NoBody]

\* C2: a POST /extract-card whose payload is over MAX_CONTENT_LENGTH is
\* answered 413 and process_image_with_gemini is not called for it.
C2_OversizeIs413 ==
    (last.op = "extract" /\ last.req.oversize)
    => (last.status = 413 /\ last.model_calls = 0)

\* one step of the runs, as C3 reads it
C3_RegisterStep ==
    LET req == last'.req
        id == last'.body.user_id
        names == << <<"B","u","s","i","n","e","s","s">>, <<"P","e","r","s","o","n","a","l">>,
                    <<"F","a","v","o","r","i","t","e","s">>,
                    <<"I","m","p","o","r","t","a","n","t">> >>
    IN  ( /\ last'.op = "register"
          /\ req.fault = "none"
          /\ req.user_name \in UserNames /\ req.phone \in Phones
          /\ req.password \in Passwords )
        => IF \E u \in users : u.phone = req.phone
           THEN /\ last'.status = 409
                /\ users' = users
                /\ categories' = categories
           ELSE /\ last'.status = 201
                /\ id \notin {u.user_id : u \in users}
                /\ Cardinality(users' \ users) = 1
                /\ users \subseteq users'
                /\ \A u \in users' \ users : u.user_id = id /\ u.phone = req.phone
                /\ Len(categories') = Len(categories) + 4
                /\ SubSeq(categories', 1, Len(categories)) = categories
                /\ \A k \in 1..4 :
                      categories'[Len(categories) + k] =
                          [user_id |-> id, category_name |-> names[k], status |-> 0]

\* C3: a complete register request for a phone no row holds is answered 201
\* and inserts exactly one user row and the four category rows Business,
\* Personal, Favorites, Important (status 0) of the new user id; a complete
\* register request for a phone a row holds (so, the second of two requests
\* with the same phone) is answered 409 and inserts nothing.
C3_RegisterTwice == [][C3_RegisterStep]_vars

\* a second registration of a phone, refused after the first was accepted
C3_Witness ==
    /\ last.op = "register"
    /\ last.status = 409
    /\ \E g \in issued : g.phone = last.req.phone
    /\ Len(categories) = 4

\* one step of the runs, as C4 reads it
C4_DisallowedKeyStep ==
    ( /\ last'.op = "update"
      /\ last'.req.updates.kind = "dict"
      /\ \E k \in DOMAIN last'.req.updates.map :
            k \notin {"name", "job_title", "company", "phone", "email", "website",
                      "address", "linkedin", "twitter", "facebook", "instagram",
                      "additional_info", "tags"} )
    => (last'.status = 400 /\ cards' = cards)

\* C4: an update whose mapping holds a key outside the allow-list, with or
\* without allowed keys beside it, is answered 400 and changes no column of
\* any card.
C4_DisallowedKeyRejected == [][C4_DisallowedKeyStep]_vars

\* one step of the runs, as C5 reads it
C5_DeleteStep ==
    \A c \in cards :
        ( /\ last'.op = "delete"
          /\ last'.req.fault = "none"
          /\ last'.req.card_id = WellFormed(c.card_id) )
        => IF c.status = 0
           THEN /\ last'.status = 200
                /\ \E d \in cards' :
                      /\ d.card_id = c.card_id
                      /\ d.status = 1
                      /\ \A col \in CardColumns \ {"status", "updated_at"} : d[col] = c[col]
                      /\ cards' = (cards \ {c}) \cup {d}
                /\ users' = users /\ categories' = categories
           ELSE /\ last'.status = 400
                /\ last'.error = "Card is already inactive"
                /\ cards' = cards /\ users' = users /\ categories' = categories

\* C5: a delete_card for a stored card whose status is 0 is answered 200 and
\* sets that card's status to 1; a delete_card for a stored card whose status
\* is 1 (so, the second of two requests for the same card) is answered 400,
\* already inactive, and changes nothing in the store.
C5_DeleteTwice == [][C5_DeleteStep]_vars

\* the second delete of a card, refused
C5_Witness ==
    /\ last.op = "delete"
    /\ last.status = 400
    /\ last.error = "Card is already inactive"
    /\ \E c \in cards : last.req.card_id = WellFormed(c.card_id) /\ c.status = 1

\* C6: every card GET /cards/<user_id> returns is a stored card of that user
\* whose status is not 1.
C6_ListHidesDeleted ==
    (last.op = "list" /\ last.status = 200)
    => \A k \in 1..Len(last.body.cards) :
          /\ last.body.cards[k] \in cards
          /\ last.body.cards[k].user_id = last.req.user_id.val
          /\ last.body.cards[k].status # 1

\* a list that returns a card while the same user has a soft-deleted one
C6_Witness ==
    /\ last.op = "list"
    /\ last.status = 200
    /\ Len(last.body.cards) > 0
    /\ \E c \in cards : c.user_id = last.req.user_id.val /\ c.status = 1

\* C7: in the row an accepted extraction inserts, every one of the twelve
\* text fields whose extracted value is "None" or "" is NULL, and every
\* other value is stored as it is (an absent key as NULL).
RawValue(info, col) ==
    IF col \in {"linkedin", "twitter", "facebook", "instagram"}
    THEN info.social[col]
    ELSE info.flat[col]

C7_SentinelsStoredAsNull ==
    (last.op = "extract" /\ last.status = 201)
    => \E row \in cards :
          /\ row.card_id = last.body.card_id
          /\ row.status = 0
          /\ \A col \in {"name", "job_title", "company", "phone", "email", "website",
                        "address", "additional_info"}
                      \cup (IF last.req.info.social_is_dict
                            THEN {"linkedin", "twitter", "facebook", "instagram"}
                            ELSE {}) :
                LET v == RawValue(last.req.info, col)
                IN  row[col] = (IF v \in {"None", "", MISSING} THEN NULL ELSE v)

\* an accepted extraction with "None", "" and ordinary text among its fields
C7_Witness ==
    /\ last.op = "extract"
    /\ last.status = 201
    /\ last.req.info.social_is_dict
    /\ \E a, b, c \in Range(TextColumns) :
          /\ RawValue(last.req.info, a) = "None"
          /\ RawValue(last.req.info, b) = ""
          /\ RawValue(last.req.info, c) = "Acme"
          /\ \E row \in cards : row.card_id = last.body.card_id /\ row[c] = "Acme"

\* the file names of the model with no extension, or with one outside
\* png, jpg, jpeg, gif, bmp, webp
NoAllowedExtension ==
    { <<>>, <<"c">>, <<"c", ".", "e", "x", "e">>,
      <<"c", ".", "p", "n", "g", ".", "e", "x", "e">> }

\* C8 as stated: an upload whose file name has no extension or one outside
\* the allowed set is always answered 400, invalid file type, whatever the
\* content, and neither the model nor the database is called.
C8_AlwaysInvalidFileType ==
    (last.op = "extract" /\ last.req.hasImage /\ last.req.filename \in NoAllowedExtension)
    => /\ last.status = 400
       /\ last.error = "Invalid file type"
       /\ last.model_calls = 0
       /\ last.conn = "none"

\* C8: an upload within the size ceiling whose file name has no extension or
\* one outside the allowed set is answered 400 whatever the content, and
\* neither the model nor the database is called; the 400 is the invalid-
\* file-type one when the user_id is present and well-formed and the file
\* name is not empty.
C8_BadExtensionIs400 ==
    ( /\ last.op = "extract"
      /\ ~last.req.oversize
      /\ last.req.hasImage
      /\ last.req.filename \in NoAllowedExtension )
    => /\ last.status = 400
       /\ last.model_calls = 0
       /\ last.conn = "none"
       /\ (last.req.user_id.kind = "uuid" /\ last.req.filename # <<>>)
             => last.error = "Invalid file type"
       /\ last.error \in {"Invalid file type", "user_id is required",
                          "Invalid user_id format", "No image file selected"}

\* a file named c.png.exe, refused though the model would have read it and
\* the database would have stored it
C8_Witness ==
    /\ last.op = "extract"
    /\ last.req.filename = <<"c", ".", "p", "n", "g", ".", "e", "x", "e">>
    /\ last.req.imageOk /\ last.req.outcome = "ok" /\ last.req.fault = "none"
    /\ last.status = 400
    /\ last.error = "Invalid file type"

\* C9: once register(user_name, phone, password) was answered 201 with
\* user_id U, login(phone, password) is answered 200 with user_id U, and
\* login(phone, any other password) is answered 401.
C9_RegisterThenLogin ==
    \A g \in issued :
        ( /\ last.op = "login"
          /\ last.req.fault = "none"
          /\ last.req.phone = g.phone
          /\ last.req.password # NoPassword )
        => IF last.req.password = g.password
           THEN last.status = 200 /\ last.body.user_id = g.user_id
           ELSE last.status = 401

\* a login accepted with the registered password, one of four bytes
C9_Witness ==
    /\ last.op = "login"
    /\ last.status = 200
    /\ \E g \in issued :
          /\ g.phone = last.req.phone
          /\ g.password = last.req.password
          /\ g.user_id = last.body.user_id
          /\ Len(g.password) = 3

\* C10: when a request ends, the database connection it opened is closed.
C10_ConnectionClosed ==
    last.conn # "open"

\* the rows of table categories that belong to a user and carry one of the
\* four default names
DefaultRowsOf(id) ==
    {k \in 1..Len(categories) :
        /\ categories[k].user_id = id
        /\ categories[k].category_name \in Range(DefaultCategories)}

\* one step of the runs, as C11 reads it
C11_RollbackStep ==
    ( /\ last'.op = "register"
      /\ last'.req.fault \in {"write", "category1", "category2", "category3",
                              "category4", "commit"}
      /\ ~ \E u \in users : u.phone = last'.req.phone )
    => /\ last'.status = 500
       /\ last'.error = "Database error"
       /\ last'.conn = "closed"
       /\ users' = users
       /\ categories' = categories

\* the tables, as C11 reads them
C11_FourDefaults ==
    /\ \A u \in users :
          u.user_id # SeedUserId => Cardinality(DefaultRowsOf(u.user_id)) >= 4
    /\ \A k \in 1..Len(categories) :
          \E u \in users : u.user_id = categories[k].user_id

\* C11: a register whose INSERT INTO users, one of whose four INSERT INTO
\* categories, or whose commit raises is answered 500 with the tables as
\* they were before it (neither the user row nor any of its category rows is
\* kept); and in every state every user a register has created has its four
\* default category rows, and every category row belongs to a stored user.
C11_RegisterIsTransactional == [][C11_RollbackStep]_vars /\ []C11_FourDefaults

\* a register that failed at its third category insert, after another
\* register had succeeded
C11_Witness ==
    /\ last.op = "register"
    /\ last.status = 500
    /\ last.req.fault = "category3"
    /\ Registered # {}
    /\ ~ \E u \in users : u.phone = last.req.phone

\* the names the requests carry, trimmed
C12_Trimmed(chars) ==
    CASE chars = <<" ", "W", "o", "r", "k", " ">> -> <<"W", "o", "r", "k">>
      [] chars = <<" ">> -> <<>>
      [] OTHER -> chars

\* one step of the runs, as C12 reads it
C12_AddStep ==
    ( /\ last'.op = "add_category"
      /\ last'.req.fault = "none"
      /\ last'.req.user_id.kind = "uuid"
      /\ \E u \in users : u.user_id = last'.req.user_id.val
      /\ last'.req.category_name.kind = "str"
      /\ C12_Trimmed(last'.req.category_name.chars) # <<>> )
    => LET row == [user_id |-> last'.req.user_id.val,
                   category_name |-> C12_Trimmed(last'.req.category_name.chars),
                   status |-> 0]
       IN  /\ users' = users /\ cards' = cards
           /\ IF \E k \in 1..Len(categories) :
                    /\ categories[k].user_id = row.user_id
                    /\ categories[k].category_name = row.category_name
              THEN /\ last'.status = 200
                   /\ last'.body.already_exists = TRUE
                   /\ categories' = categories
              ELSE /\ last'.status = 201
                   /\ last'.body.already_exists = FALSE
                   /\ last'.body.status = 0
                   /\ categories' = Append(categories, row)

\* the table, as C12 reads it
C12_OneRowPerName ==
    \A j, k \in 1..Len(categories) :
        ( /\ categories[j].user_id = categories[k].user_id
          /\ categories[j].category_name = categories[k].category_name )
        => j = k

\* C12: an add_category for a stored user and a name that is not blank,
\* served with a working database, is answered 200 with already_exists true
\* and inserts nothing when a row with that user_id and the trimmed name is
\* stored (one of the four defaults, or one added before), and otherwise is
\* answered 201 and appends exactly one row, with the trimmed name and
\* status 0; in every state there is at most one category row per user_id
\* and category_name.
C12_AddCategoryIdempotent == [][C12_AddStep]_vars /\ []C12_OneRowPerName

\* " Work " asked for by a user who has added "Work" before, while another
\* user has a "Work" row too
C12_Witness ==
    /\ last.op = "add_category"
    /\ last.status = 200
    /\ last.req.category_name = NameText(<<" ", "W", "o", "r", "k", " ">>)
    /\ last.body.already_exists = TRUE
    /\ \E j, k \in 1..Len(categories) :
          /\ j # k
          /\ categories[j].category_name = <<"W", "o", "r", "k">>
          /\ categories[k].category_name = <<"W", "o", "r", "k">>

\* one step of the runs, as C13 reads it
C13_UnknownUserStep ==
    ( /\ last'.op = "extract"
      /\ ~last'.req.oversize
      /\ last'.req.hasImage
      /\ last'.req.user_id.kind = "uuid"
      /\ last'.req.filename = <<"c", ".", "p", "n", "g">>
      /\ last'.req.imageOk
      /\ last'.req.outcome = "ok"
      /\ last'.req.fault = "none"
      /\ ~ \E u \in users : u.user_id = last'.req.user_id.val )
    => /\ last'.status = 404
       /\ last'.error = "User not found"
       /\ cards' = cards

\* the tables, as C13 reads them
C13_OwnerStored ==
    \A c \in cards : \E u \in users : u.user_id = c.user_id

C14_BadIdsOfLast ==
    LET bad(id) == id.kind \in {"malformed", "nonstring"}
    IN  CASE last.op \in {"extract", "list", "add_category"} -> bad(last.req.user_id)
          [] last.op = "update" -> bad(last.req.user_id) \/ bad(last.req.card_id)
          [] last.op = "delete" -> bad(last.req.card_id)
          [] OTHER -> FALSE

\* C14: an extract-card, list-cards, update-card, delete-card or add-category
\* request whose user_id or card_id is present and is no well-formed UUID,
\* whatever its JSON type, is answered 400, with no database connection
\* opened and no model call made.
C14_BadIdIs400 ==
    C14_BadIdsOfLast
    => /\ last.status = 400
       /\ last.conn = "none"
       /\ last.model_calls = 0

\* one step of the runs, as C15 reads it
C15_UpdateStep ==
    ( /\ last'.op = "update"
      /\ last'.req.fault = "none"
      /\ last'.req.user_id.kind = "uuid"
      /\ last'.req.card_id.kind = "uuid"
      /\ last'.req.updates.kind = "dict"
      /\ DOMAIN last'.req.updates.map # {}
      /\ DOMAIN last'.req.updates.map \subseteq allowed_fields )
    => LET matching == {c \in cards : /\ c.card_id = last'.req.card_id.val
                                      /\ c.user_id = last'.req.user_id.val}
           named == DOMAIN last'.req.updates.map
       IN  /\ users' = users /\ categories' = categories
           /\ IF matching = {}
              THEN /\ last'.status = 404
                   /\ cards' = cards
              ELSE /\ last'.status = 200
                   /\ Cardinality(matching) = 1
                   /\ \E c \in matching : \E d \in cards' :
                         /\ cards' = (cards \ {c}) \cup {d}
                         /\ \A col \in CardColumns \ (named \cup {"updated_at"}) :
                               d[col] = c[col]

\* C15: an update-card with well-formed ids and a non-empty mapping of
\* allow-listed keys, served with a working database, is answered 404 and
\* leaves every card row as it is when no stored card has both the card_id
\* and the user_id of the request (no such card, or a card of another
\* user); otherwise it is answered 200 and changes, in the one card that
\* has both, only the named columns and updated_at.
C15_UpdateOnlyOwnCard == [][C15_UpdateStep]_vars

\* an update refused for a card that is stored and owned by another user
C15_Witness ==
    /\ last.op = "update"
    /\ last.status = 404
    /\ last.error = "Card not found or does not belong to user"
    /\ last.req.fault = "none"
    /\ \E c \in cards : /\ c.card_id = last.req.card_id.val
                         /\ c.user_id # last.req.user_id.val

\* one step of the runs, as C16 reads it
C16_ExtractStep ==
    last'.op = "extract"
    => /\ last'.model_calls <= 1
       /\ \/ cards' = cards
          \/ /\ last'.req.outcome = "ok"
             /\ last'.status = 201
             /\ last'.model_calls = 1
             /\ \E d \in cards' : /\ d \notin cards
                                   /\ cards' = cards \cup {d}
                                   /\ d.status = 0
       /\ ( /\ ~last'.req.oversize
            /\ last'.req.hasImage
            /\ last'.req.user_id.kind = "uuid"
            /\ last'.req.filename = <<"c", ".", "p", "n", "g">>
            /\ last'.req.imageOk
            /\ last'.req.outcome \in {"parse_error", "model_error"} )
          => /\ last'.status = 500
             /\ last'.error = "Failed to extract card information"
             /\ last'.conn = "none"
             /\ cards' = cards

\* C16: an extract-card whose extraction result has an error key (the
\* model's text is no JSON, or the call to the model raised) is answered
\* 500, opens no database connection and inserts no row; every extract-card
\* makes at most one model call and inserts at most one card, always with
\* status 0 and only after an extraction without an error key.
C16_PersistAfterExtraction == [][C16_ExtractStep]_vars

\* an upload whose model text was no JSON, refused while a card is stored
C16_Witness ==
    /\ last.op = "extract"
    /\ last.req.outcome = "parse_error"
    /\ last.req.fault = "none"
    /\ last.status = 500
    /\ last.model_calls = 1
    /\ cards # {}

\* C17: whatever the interleaving of register requests that carry the same
\* phone, no two rows of table users have the same phone, and at most one
\* of the requests is answered 201.
C17_PhoneUnique ==
    /\ \A u, v \in users : u.phone = v.phone => u = v
    /\ \A i, j \in issued : i.phone = j.phone => i = j

\* one step of the runs, as C18 reads it
C18_StatusStep ==
    /\ \A c \in cards : \E d \in cards' :
          /\ d.card_id = c.card_id
          /\ c.status = 1 => d.status = 1
          /\ d.status # c.status
             => (c.status = 0 /\ d.status = 1 /\ last'.op = "delete")
    /\ \A d \in cards' :
          (~ \E c \in cards : c.card_id = d.card_id)
          => (d.status = 0 /\ last'.op = "extract")

\* the table, as C18 reads it
C18_StatusIsZeroOrOne ==
    \A c \in cards : c.status \in {0, 1}

\* C18: a card is stored with status 0, by extract-card only; the only
\* change of a stored card's status is from 0 to 1, by delete-card; in every
\* state the status of every card is 0 or 1; and a card whose status is 1
\* stays stored with status 1 whatever request follows, an update-card of
\* that card included.
C18_StatusOnlyZeroToOne == [][C18_StatusStep]_vars /\ []C18_StatusIsZeroOrOne

\* an update-card accepted for a card that has been deleted
C18_Witness ==
    /\ last.op = "update"
    /\ last.status = 200
    /\ \E c \in cards : /\ c.card_id = last.req.card_id.val
                         /\ c.status = 1


====
